---------------------------- MODULE Spec2Model ----------------------------
(***************************************************************************)
(* Model of SimulationRunner:                                              *)
(*   change_power_spectrum_knots  (SimulationRunner/lyasimulation.py)      *)
(*   get_neutrino_masses          (SimulationRunner/simulationics.py)      *)
(*   SimulationICs and its Lyman-alpha subclasses: construction,           *)
(*   make_simulation and the JSON description of the object.               *)
(*                                                                         *)
(* Floating point numbers are modelled by exact integer and rational       *)
(* arithmetic on fixed grids:                                              *)
(*   - a wavenumber k is an integer number of 1e-6 h/Mpc (KOne is k = 1);  *)
(*   - a knot value and a power P are reduced fractions <<num, den>>;      *)
(*   - a neutrino mass is an integer number of MassUnit = 1e-5 eV on input *)
(*     and of 1/MassDen of that unit inside the solver;                    *)
(*   - a redshift is an integer number of hundredths.                      *)
(***************************************************************************)
EXTENDS Integers, Sequences, FiniteSets, TLC

VARIABLES
    matpow,       \* change_power_spectrum_knots: argument matpow, rows [k, P]
    knotpos,      \* change_power_spectrum_knots: argument knotpos
    knotval,      \* change_power_spectrum_knots: argument knotval
    rw,           \* change_power_spectrum_knots: outcome of the call
    first,        \* the earlier call, when matpow is the table it returned
    total_mass,   \* get_neutrino_masses: argument total_mass, in 1e-5 eV
    hierarchy,    \* get_neutrino_masses: argument hierarchy
    nu,           \* get_neutrino_masses: outcome of the call
    frames,       \* the local variables of the invocations in flight
    cls,          \* the class of the simulation object
    kwargs,       \* the keyword arguments of its construction and of make_simulation
    self,         \* the object's __dict__: attribute name -> value
    files,        \* the paths that exist below outdir
    jsonfile,     \* the content of outdir/SimulationICs.json
    trace,        \* the steps of make_simulation so far, with the file each used
    pc,           \* where the object's life is: the next step of make_simulation
    raised,       \* the exception that ended the construction or the run
    before,       \* __dict__ as it was when txt_description was last called
    last          \* the method of the object that completed last

nuvars == <<total_mass, hierarchy, nu>>

rwvars == <<matpow, knotpos, knotval, rw, first>>

parvars == <<frames>>

simvars == <<cls, kwargs, self, files, jsonfile, trace, pc, raised, before, last>>

vars == <<matpow, knotpos, knotval, rw, first, total_mass, hierarchy, nu,
          frames, cls, kwargs, self, files, jsonfile, trace, pc, raised, before,
          last>>

\* No invocation in flight.
ParIdle == frames = << >>

NoException == [exc |-> "none", file |-> "", line |-> 0]

\* No simulation object.
SimIdle ==
    /\ cls = "none"
    /\ kwargs = << >>
    /\ self = << >>
    /\ files = {}
    /\ jsonfile = << >>
    /\ trace = << >>
    /\ pc = "none"
    /\ raised = NoException
    /\ before = << >>
    /\ last = "none"

Abs(x) == IF x < 0 THEN -x ELSE x

---------------------------------------------------------------------------
(* Exact fractions <<num, den>>, den > 0, in lowest terms *)

RECURSIVE GCD(_, _)
GCD(a, b) == IF b = 0 THEN a ELSE GCD(b, a % b)

R(n, d) ==
    LET g == GCD(Abs(n), Abs(d))
        sgn == IF d < 0 THEN -1 ELSE 1
    IN << sgn * (n \div g), sgn * (d \div g) >>

RInt(n) == << n, 1 >>

\* a * b, cancelling across before multiplying.
RMul(a, b) ==
    LET g1 == GCD(Abs(a[1]), b[2])
        g2 == GCD(Abs(b[1]), a[2])
    IN IF a[1] = 0 \/ b[1] = 0 THEN << 0, 1 >>
       ELSE << (a[1] \div g1) * (b[1] \div g2), (a[2] \div g2) * (b[2] \div g1) >>

\* a + b over the least common denominator.
RAdd(a, b) ==
    LET g == GCD(a[2], b[2])
    IN R(a[1] * (b[2] \div g) + b[1] * (a[2] \div g), (a[2] \div g) * b[2])

RNeg(a) == << -a[1], a[2] >>

RSub(a, b) == RAdd(a, RNeg(b))

---------------------------------------------------------------------------
(* numpy helpers; an array is a sequence, a 0-based index i is entry i + 1 *)

Max(a, b) == IF a >= b THEN a ELSE b
Min(a, b) == IF a <= b THEN a ELSE b

\* np.searchsorted(a, v) (side='left') on an increasing array: the number of
\* entries below v.
SearchSorted(a, v) == Cardinality({i \in 1..Len(a) : a[i] < v})

\* np.searchsorted(a, v * num/den)
SearchSortedScaled(a, v, num, den) ==
    Cardinality({i \in 1..Len(a) : den * a[i] < num * v})

\* a[j] with Python's wrap-around of a negative index j (-Len(a) <= j < Len(a)).
PyIndex(a, j) == IF j >= 0 THEN a[j + 1] ELSE a[Len(a) + j + 1]

\* The entries of vals whose index in idxs is p, in their order in vals.
ValsAt(idxs, vals, p) ==
    LET js == {j \in 1..Len(idxs) : idxs[j] = p}
    IN [n \in 1..Cardinality(js) |->
            vals[CHOOSE j \in js : Cardinality({m \in js : m <= j}) = n]]

RECURSIVE NpInsertFrom(_, _, _, _)
NpInsertFrom(arr, idxs, vals, p) ==
    ValsAt(idxs, vals, p) \o
        (IF p < Len(arr) THEN << arr[p + 1] >> \o NpInsertFrom(arr, idxs, vals, p + 1)
         ELSE << >>)

\* np.append in place of np.insert: the new entries go to the end.
NpAppend(arr, idxs, vals) == arr \o vals

\* np.insert(arr, idxs, vals): vals[j] goes before the entry that had index
\* idxs[j]; entries with equal indices keep their order.
NpInsert(arr, idxs, vals) == NpInsertFrom(arr, idxs, vals, 0)

\* np.delete(arr, idxs) for a set idxs of entries (here numbered from 1).
NpDelete(arr, idxs) ==
    LET keep == (1..Len(arr)) \ idxs
    IN [n \in 1..Cardinality(keep) |->
            arr[CHOOSE i \in keep : Cardinality({m \in keep : m <= i}) = n]]

---------------------------------------------------------------------------
(* change_power_spectrum_knots, lyasimulation.py lines 95-146 *)

\* k = 1 on the wavenumber grid: one grid step is 5e-6 h/Mpc.
KOne == 200 * 1000

KCol(mp) == [i \in 1..Len(mp) |-> mp[i].k]
PCol(mp) == [i \in 1..Len(mp) |-> mp[i].P]

\* np.all(x) as the number Python compares it as: 1 when no entry is zero.
NpAllPos(x) == IF \A i \in 1..Len(x) : x[i] # 0 THEN KOne ELSE 0
NpAllVal(x) == IF \A i \in 1..Len(x) : x[i][1] # 0 THEN 1 ELSE 0

\* k1 <= k1p in place of k1 < k1p.
KnotsNonDecreasing(kp) == \A i \in 1..(Len(kp) - 1) : kp[i] <= kp[i + 1]

\* Line 104: every adjacent pair of knotpos increases.
KnotsIncrease(kp) == \A i \in 1..(Len(kp) - 1) : kp[i] < kp[i + 1]

\* Line 105: np.shape(knotval) == np.shape(knotpos)
SameShape(kp, kv) == Len(kp) = Len(kv)

\* Lines 110-112: np.all(...) is evaluated first and its truth value compared.
KnotposPositive(kp) == NpAllPos(kp) > 0
KnotposInTable(kp, kval) ==
    NpAllPos(kp) > kval[1] /\ NpAllPos(kp) < kval[Len(kval)]
KnotvalPositive(kv) == NpAllVal(kv) > 0

\* The large-scale and small-scale knots fixed at 1 instead.
ExtKnotvalUnit(kv) == << RInt(1) >> \o kv \o << RInt(1) >>

\* Lines 117-118: the knots with one more at each end of the table.
ExtKnotpos(kp, kval) ==
    << (kval[1] * 95) \div 100 >> \o kp \o << (kval[Len(kval)] * 105) \div 100 >>
ExtKnotval(kv) == << kv[1] >> \o kv \o << kv[Len(kv)] >>

\* Lines 122-123: the bounds (imin, imax) of the interpolated part of the table.
IMin(kp, kval) == Max(0, SearchSortedScaled(kval, kp[1], 66, 100) - 5)
IMax(kp, kval) ==
    Min(Len(kval) - 1, SearchSortedScaled(kval, kp[Len(kp)], 3, 2) + 5)

\* a[imin:imax]
Slice(a, imin, imax) == SubSeq(a, imin + 1, imax)

\* Line 126
Locations(w, kp) == [j \in 1..Len(kp) |-> SearchSorted(w, kp[j])]

\* Line 127: kval[imin:imax][locations] raises IndexError past the end.
LocationsInRange(w, loc) == \A j \in 1..Len(loc) : loc[j] < Len(w)

\* The sample below each knot in place of the midpoint of its interval.
MidpointsLower(w, loc) == [j \in 1..Len(loc) |-> PyIndex(w, loc[j] - 1)]

Midpoints(w, loc) ==
    [j \in 1..Len(loc) |-> (PyIndex(w, loc[j]) + PyIndex(w, loc[j] - 1)) \div 2]

\* Lines 128-129
InsKnotpos(kp, mid) ==
    NpInsert(kp, [j \in 1..Len(mid) |-> SearchSorted(kp, mid[j])], mid)

\* Line 124: a cubic interp1d needs four points.
CubicPoints == 4

\* pint raises ValueError for a point outside the interpolated range.
PIntInRange(w, ins) ==
    \A j \in 1..Len(ins) : w[1] <= ins[j] /\ ins[j] <= w[Len(w)]

\* np.exp(pint(np.log(x))): the table's own P at one of its points; between them
\* the value ip drawn for this call stands for the cubic interpolant's.
PInt(wk, wp, x, ip) ==
    IF \E i \in 1..Len(wk) : wk[i] = x
    THEN wp[CHOOSE i \in 1..Len(wk) : wk[i] = x]
    ELSE ip

\* Line 135: 1/1e-5
RelTolInv == 100000

\* |b - a| < 1e-5 * b for grid points a, b with b > 0.
Close(a, b) == Abs(b - a) <= (b - 1) \div RelTolInv

\* Line 135: the entries (numbered from 1) followed by a very close one.
Collision(kval) == {i \in 1..(Len(kval) - 1) : Close(kval[i], kval[i + 1])}

\* Line 140
AllUnique(kval) == Cardinality({kval[i] : i \in 1..Len(kval)}) = Len(kval)

\* interp1d raises ValueError for a point outside the knots.
DpkInRange(x, kval) ==
    \A i \in 1..Len(kval) : x[1] <= kval[i] /\ kval[i] <= x[Len(x)]

\* The values of the two knots around xnew multiplied, in place of interpolated,
\* strictly between them.
DpkProduct(x, y, xnew) ==
    LET hi == Max(1, Min(Len(x) - 1, SearchSorted(x, xnew))) + 1
        lo == hi - 1
    IN IF xnew = x[lo] THEN y[lo]
       ELSE IF xnew = x[hi] THEN y[hi]
       ELSE RMul(y[lo], y[hi])

\* kind='previous' in place of kind='linear': the value of the knot below xnew.
DpkPrevious(x, y, xnew) ==
    LET hi == Max(1, Min(Len(x) - 1, SearchSorted(x, xnew))) + 1
    IN IF xnew = x[hi] THEN y[hi] ELSE y[hi - 1]

\* The knot values interpolated in log k where that can be written exactly: half
\* way at the geometric mean of the two knots around xnew.
DpkLog(x, y, xnew) ==
    LET hi == Max(1, Min(Len(x) - 1, SearchSorted(x, xnew))) + 1
        lo == hi - 1
    IN IF x[lo] > 0 /\ x[lo] < xnew /\ R(xnew, x[lo]) = R(x[hi], xnew)
       THEN RAdd(y[lo], RMul(RSub(y[hi], y[lo]), R(1, 2)))
       ELSE RAdd(y[lo], RMul(RSub(y[hi], y[lo]), R(xnew - x[lo], x[hi] - x[lo])))

\* Line 142-144: dpk(xnew) for interp1d(x, y, kind='linear') on increasing x:
\* slope*(xnew - x_lo) + y_lo between the two knots around xnew.
Dpk(x, y, xnew) ==
    LET hi == Max(1, Min(Len(x) - 1, SearchSorted(x, xnew))) + 1
        lo == hi - 1
    IN RAdd(y[lo], RMul(RSub(y[hi], y[lo]), R(xnew - x[lo], x[hi] - x[lo])))

\* pval += dpk(kval) in place of pval *= dpk(kval).
MultiplyAdded(pval, kval, x, y) ==
    [i \in 1..Len(kval) |-> RAdd(pval[i], Dpk(x, y, kval[i]))]

\* Line 144: pval *= dpk(kval)
Multiply(pval, kval, x, y) ==
    [i \in 1..Len(kval) |-> RMul(pval[i], Dpk(x, y, kval[i]))]

Raised(exc, line) ==
    [status |-> exc, line |-> line, kval |-> << >>, pval |-> << >>, table |-> << >>]

\* change_power_spectrum_knots(knotpos, knotval, matpow), with ip the value the
\* cubic interpolant takes between the points of the table.
change_power_spectrum_knots(kp, kv, mp, ip) ==
    LET kval0 == KCol(mp)
        pval0 == PCol(mp)
        x == ExtKnotpos(kp, kval0)
        y == ExtKnotval(kv)
        imin == IMin(kp, kval0)
        imax == IMax(kp, kval0)
        wk == Slice(kval0, imin, imax)
        wp == Slice(pval0, imin, imax)
        loc == Locations(wk, kp)
        ins == InsKnotpos(kp, Midpoints(wk, loc))
        index == [j \in 1..Len(ins) |-> SearchSorted(kval0, ins[j])]
        kval1 == NpInsert(kval0, index, ins)
        pval1 == NpInsert(pval0, index,
                          [j \in 1..Len(ins) |-> PInt(wk, wp, ins[j], ip)])
        coll == Collision(kval1)
        kval2 == NpDelete(kval1, coll)
        pval2 == NpDelete(pval1, coll)
        pval3 == Multiply(pval2, kval2, x, y)
    IN IF ~KnotsIncrease(kp) THEN Raised("AssertionError", 104)
       ELSE IF ~SameShape(kp, kv) THEN Raised("AssertionError", 105)
       ELSE IF ~KnotposPositive(kp) THEN Raised("AssertionError", 110)
       ELSE IF ~KnotposInTable(kp, kval0) THEN Raised("AssertionError", 111)
       ELSE IF ~KnotvalPositive(kv) THEN Raised("AssertionError", 112)
       ELSE IF Len(wk) < CubicPoints THEN Raised("ValueError", 124)
       ELSE IF ~LocationsInRange(wk, loc) THEN Raised("IndexError", 127)
       ELSE IF ~PIntInRange(wk, ins) THEN Raised("ValueError", 133)
       ELSE IF ~AllUnique(kval2) THEN Raised("AssertionError", 140)
       ELSE IF ~DpkInRange(x, kval2) THEN Raised("ValueError", 144)
       ELSE [status |-> "returned", line |-> 146, kval |-> kval2, pval |-> pval2,
             table |-> [i \in 1..Len(kval2) |-> [k |-> kval2[i], P |-> pval3[i]]]]

---------------------------------------------------------------------------
(* Double-precision values, for the quotient of line 587 *)

\* Grid units of total_mass in 1 eV.
MassGrid == 100000

\* The 53-bit significand of a float64 is kept in two halves, hi of 26 bits and
\* lo of 27: a positive double [e, hi, lo] is (hi * 2^27 + lo) * 2^(e - 53) with
\* 2^25 <= hi < 2^26.
HiOne == 33554432
LoOne == 134217728
Chunk == 8192

DoubleZero == [e |-> 0, hi |-> 0, lo |-> 0]
NoDouble == [e |-> 0, hi |-> -1, lo |-> -1]

\* The next double above x > 0.
DoubleSucc(x) ==
    IF x.lo + 1 < LoOne THEN [x EXCEPT !.lo = x.lo + 1]
    ELSE IF x.hi + 1 < 2 * HiOne THEN [x EXCEPT !.hi = x.hi + 1, !.lo = 0]
    ELSE [e |-> x.e + 1, hi |-> HiOne, lo |-> 0]

RECURSIVE Normalise(_, _, _)
\* num * 2^(-e) scaled into [den/2, den), for 0 < num < den.
Normalise(num, den, e) ==
    IF 2 * num < den THEN Normalise(2 * num, den, e - 1) ELSE [num |-> num, e |-> e]

\* The double nearest to num/den (a decimal literal, as the parser reads it), for
\* 0 <= num < den < 2^18: long division, 13 bits at a time, to 65 bits, rounded
\* to nearest with ties to even.
ToDouble(num, den) ==
    IF num = 0 THEN DoubleZero
    ELSE LET n == Normalise(num, den, 0)
             c1 == (n.num * Chunk) \div den
             r1 == (n.num * Chunk) % den
             c2 == (r1 * Chunk) \div den
             r2 == (r1 * Chunk) % den
             c3 == (r2 * Chunk) \div den
             r3 == (r2 * Chunk) % den
             c4 == (r3 * Chunk) \div den
             r4 == (r3 * Chunk) % den
             c5 == (r4 * Chunk) \div den
             r5 == (r4 * Chunk) % den
             x == [e |-> n.e, hi |-> c1 * Chunk + c2,
                   lo |-> c3 * (2 * Chunk) + c4 * 2 + c5 \div (Chunk \div 2)]
             rest == c5 % (Chunk \div 2)
             half == Chunk \div 4
             up == \/ rest > half
                   \/ rest = half /\ (r5 # 0 \/ x.lo % 2 = 1)
         IN IF up THEN DoubleSucc(x) ELSE x

\* x / d in float64 for a double x >= 0 and d = 3: the significand shifted left by
\* s bits (s = 1 or 2, so that the quotient has 53 bits again), divided with
\* remainder, and rounded to nearest (a remainder of 2 is more than half).
DoubleDiv(x, d) ==
    IF x = DoubleZero THEN DoubleZero
    ELSE LET s == IF x.hi \div d >= HiOne \div 2 THEN 1 ELSE 2
             sh == IF s = 1 THEN 2 ELSE 4
             hi == x.hi * sh + x.lo \div (LoOne \div sh)
             lo == (x.lo * sh) % LoOne
             q == [e |-> x.e - s, hi |-> hi \div d,
                   lo |-> ((hi % d) * LoOne + lo) \div d]
             r == ((hi % d) * LoOne + lo) % d
         IN IF 2 * r > d THEN DoubleSucc(q) ELSE q

---------------------------------------------------------------------------
(* get_neutrino_masses, simulationics.py lines 567-597 *)

\* The squared-mass splittings in (1e-5 eV)^2: 1 eV^2 = 1e10 units.
nu_M21 == 753000
nu_M32n == 24400000
nu_M32i == 25100000

\* Largest total mass drawn, in 1e-5 eV.
MaxMass == 30000

\* Away from the branch thresholds only every MassStride-th mass is drawn.
MassStride == 100

\* Fixed-point scale of a square root: SqrtQ returns Q * sqrt(x).
Q == 500 * 3

\* Masses of the returned triple are integers in 1/MassDen of 1e-5 eV, so that
\* total_mass/3., total_mass/2. and 0.5*(DD +- nu_M21/DD) are all exact.
MassDen == 2 * Q

RECURSIVE ISqrtIter(_, _, _)
\* Largest s in lo..hi with s*s <= x (lo*lo <= x is given).
ISqrtIter(x, lo, hi) ==
    IF lo >= hi THEN lo
    ELSE LET mid == (lo + hi + 1) \div 2
         IN IF mid * mid <= x THEN ISqrtIter(x, mid, hi)
            ELSE ISqrtIter(x, lo, mid - 1)

ISqrt(x) == ISqrtIter(x, 0, 46340)

\* np.sqrt(x) for x >= 0, in units of 1/Q: s + (x - s^2)/(2s) with s the integer
\* root, which is above the true root by less than 1/(2s) and rounded down.
SqrtQ(x) ==
    LET s == ISqrt(x)
    IN IF s = 0 THEN 0 ELSE Q * s + (Q * (x - s * s)) \div (2 * s)

Prod(fs) == IF fs = <<>> THEN 1 ELSE IF Len(fs) = 1 THEN fs[1]
            ELSE IF Len(fs) = 2 THEN fs[1] * fs[2] ELSE fs[1] * fs[2] * fs[3]

RECURSIVE ScaleDiv(_, _, _)
\* floor(a * Prod(fs) / b) for a >= 0, b > 0 and at most three factors fs, by long
\* division, one factor at a time (a * Prod(fs) itself may not fit an integer).
ScaleDiv(a, b, fs) ==
    IF fs = <<>> THEN a \div b
    ELSE (a \div b) * Prod(fs) + ScaleDiv((a % b) * Head(fs), b, Tail(fs))

\* The inverted threshold with the factor 2 left out.
InvertedThresholdSingle == SqrtQ(nu_M32i) - SqrtQ(nu_M21)

\* np.sqrt(nu_M32n) + np.sqrt(nu_M21) and 2*np.sqrt(nu_M32i) - np.sqrt(nu_M21),
\* in units of 1/Q.
NormalThreshold == SqrtQ(nu_M32n) + SqrtQ(nu_M21)
InvertedThreshold == 2 * SqrtQ(nu_M32i) - SqrtQ(nu_M21)

\* 4 * total_mass/3. - 2/3.*np.sqrt(X), in units of 1/Q.
SolveDD(M, X) == (4 * M * Q - 2 * SqrtQ(X)) \div 3

\* total_mass**2 + 3*nu_M32 + 1.5*nu_M21
Radicand(M, nu_M32) == M * M + 3 * nu_M32 + (3 * nu_M21) \div 2

\* 0.75*nu_M21**2/DD1**2 for DD1 = D1/Q > 0: the ratio nu_M21/DD1 to two decimals
\* (h + l/100), squared and rounded down.
Correction(D1) ==
    LET c == ScaleDiv(nu_M21 * Q, D1, <<10, 10>>)
        h == c \div 100
        l == c % 100
    IN (3 * h * h + (3 * (200 * h * l + l * l)) \div 10000) \div 4

\* A dropped sign: the third mass computed as the second.
NuMassesSignSlip(M, D) ==
    LET q == ScaleDiv(nu_M21 * Q, Abs(D), <<15, 10, 10>>)
    IN << 2 * (M * Q - D), D + q, D + q >>

\* nu_masses of line 593 for DD = D/Q # 0, in units of 1/MassDen:
\* [total_mass - DD, 0.5*(DD + nu_M21/DD), 0.5*(DD - nu_M21/DD)].
NuMasses(M, D) ==
    LET q == (IF D < 0 THEN -1 ELSE 1) * ScaleDiv(nu_M21 * Q, Abs(D), <<15, 10, 10>>)
    IN << 2 * (M * Q - D), D + q, D - q >>

\* The three assertions of lines 594-596.
DDFinite(s) == s.finite
\* np.abs(DD1/DD - 1) < 2e-2, that is |DD1 - DD| < 0.02 * |DD|; DD = 0 makes DD1/DD
\* infinite (or not a number) and the comparison false.
Converged(s) == s.DD # 0 /\ 50 * Abs(s.DD1 - s.DD) < Abs(s.DD)
\* The last assertion left out.
AllNonNegDropped(s) == TRUE

\* np.all(nu_masses >= 0); DD = 0 makes two masses not numbers, and it false.
AllNonNeg(s) == s.DD # 0 /\ \A i \in 1..3 : s.masses[i] >= 0

\* Lines 590-593: DD1, DD and nu_masses. A negative radicand makes the root, and
\* DD with it, not a number; DD1 = 0 makes the last term infinite.
Solver(M, nu_M32) ==
    LET X1 == Radicand(M, nu_M32)
        D1 == IF X1 < 0 THEN 0 ELSE SolveDD(M, X1)
        fin == X1 >= 0 /\ D1 # 0
        D == IF fin THEN SolveDD(M, X1 + Correction(Abs(D1))) ELSE 0
    IN [DD1 |-> D1, DD |-> D, finite |-> fin,
        masses |-> IF fin /\ D # 0 THEN NuMasses(M, D) ELSE << 0, 0, 0 >>]

\* Run with assertions disabled (python -O): nu_masses is returned unchecked.
SolverOutcomeUnchecked(s) ==
    [status |-> "returned", branch |-> "solver", masses |-> s.masses,
     DD1 |-> s.DD1, DD |-> s.DD, finite |-> s.finite, fl |-> NoDouble]

\* The asserts, then return nu_masses.
SolverOutcome(s) ==
    [status |-> IF DDFinite(s) /\ Converged(s) /\ AllNonNeg(s)
                THEN "returned" ELSE "AssertionError",
     branch |-> "solver", masses |-> s.masses,
     DD1 |-> s.DD1, DD |-> s.DD, finite |-> s.finite, fl |-> NoDouble]

EarlyReturn(branch, masses) ==
    [status |-> "returned", branch |-> branch, masses |-> masses,
     DD1 |-> 0, DD |-> 0, finite |-> TRUE, fl |-> NoDouble]

\* Line 587 with the division left out: np.ones(3)*total_mass.
DegenerateSplitUndivided(M) ==
    [EarlyReturn("degenerate", << MassDen * M, MassDen * M, MassDen * M >>)
        EXCEPT !.fl = ToDouble(M, MassGrid)]

\* Line 587: np.ones(3)*total_mass/3., the entries as exact thirds and, in fl, as
\* the float64 the division yields (1.0*total_mass is total_mass itself).
DegenerateSplit(M) ==
    [EarlyReturn("degenerate",
                 << (MassDen * M) \div 3, (MassDen * M) \div 3, (MassDen * M) \div 3 >>)
        EXCEPT !.fl = DoubleDiv(ToDouble(M, MassGrid), 3)]

\* get_neutrino_masses(total_mass, hierarchy)
get_neutrino_masses(M, h) ==
    IF h = "normal" THEN
        IF M * Q < NormalThreshold
        THEN EarlyReturn("below", << MassDen * M, 0, 0 >>)
        ELSE SolverOutcome(Solver(M, nu_M32n))
    ELSE IF h = "inverted" THEN
        IF M * Q < InvertedThreshold
        THEN EarlyReturn("below", << (MassDen * M) \div 2, (MassDen * M) \div 2, 0 >>)
        ELSE SolverOutcome(Solver(M, -nu_M32i))
    ELSE DegenerateSplit(M)

Hierarchies == {"normal", "inverted", "degenerate", "inverse"}

\* The total masses drawn: every mass near the two thresholds and up to where
\* the solver's checks start to pass, and every MassStride-th mass elsewhere.
TotalMasses ==
    {m \in 0..MaxMass :
        \/ m % MassStride = 0
        \/ m \in 5750..5950
        \/ m \in 9100..9200
        \/ m \in 9900..10000}

NuIdle == [status |-> "none", branch |-> "none", masses |-> << >>,
           DD1 |-> 0, DD |-> 0, finite |-> TRUE, fl |-> NoDouble]

InitNu ==
    /\ total_mass \in TotalMasses
    /\ hierarchy \in Hierarchies
    /\ nu = NuIdle
    /\ matpow = << >>
    /\ knotpos = << >>
    /\ knotval = << >>
    /\ rw = Raised("none", 0)
    /\ first = [matpow |-> << >>, knotpos |-> << >>, knotval |-> << >>]
    /\ ParIdle
    /\ SimIdle

\* One call of get_neutrino_masses on the drawn arguments.
SplitMasses ==
    /\ nu.status = "none"
    /\ nu' = get_neutrino_masses(total_mass, hierarchy)
    /\ UNCHANGED <<total_mass, hierarchy, rwvars, parvars, simvars>>

NextNu == SplitMasses

SpecNu == InitNu /\ [][NextNu]_vars

---------------------------------------------------------------------------
(* The calls of change_power_spectrum_knots that are drawn *)

\* Longest knotpos and knotval drawn.
MaxKnots == 2

\* A table of n rows at k = step, 2*step, ..., with the powers ps.
Table(step, n, ps) == [i \in 1..n |-> [k |-> step * i, P |-> RInt(ps[i])]]

\* A table with the rows (ks[i], ps[i]).
TableAt(ks, ps) == [i \in 1..Len(ks) |-> [k |-> ks[i], P |-> RInt(ps[i])]]

\* Tables from k = 0.2 (0.1) to k = 1.4 in steps of 0.2 (0.1); a table from
\* k = 0.6 with two rows 2e-5 apart (farther than the 1e-5 of line 135, closer
\* than twice that); a table that starts above k = 1.
Tables ==
    { Table(40000, 7, << 7, 6, 5, 4, 3, 2, 1 >>),
      Table(20000, 14, << 7, 7, 6, 6, 5, 5, 4, 4, 3, 3, 2, 2, 1, 1 >>),
      TableAt(<< 120000, 160000, 200000, 200004, 240000, 280000 >>,
              << 6, 5, 4, 3, 2, 1 >>),
      Table(250000, 4, << 4, 3, 2, 1 >>) }

\* Knot positions: zero, below the table, on its first row, between rows, on a
\* row, just above a row (within 1e-5 of it), in the last interval, above the table.
KnotCandidates ==
    { 0, 30000, 40000, 60000, 80000, 120001, 150000, 200002, 250000, 300000 }

KnotValues == { R(0, 1), R(-1, 1), R(19, 20), R(1, 1), R(11, 10) }

SeqsUpTo(S, n) == UNION { [1..m -> S] : m \in 1..n }

\* The values the cubic interpolant may take between the rows of the table.
InterpValues == { R(5, 2), R(9, 2) }

RwIdle == Raised("none", 0)
NoFirst == [matpow |-> << >>, knotpos |-> << >>, knotval |-> << >>]

Init ==
    /\ matpow \in Tables
    /\ knotpos \in SeqsUpTo(KnotCandidates, MaxKnots)
    /\ knotval \in SeqsUpTo(KnotValues, MaxKnots)
    /\ rw = RwIdle
    /\ first = NoFirst
    /\ total_mass = 0
    /\ hierarchy = "degenerate"
    /\ nu = NuIdle
    /\ ParIdle
    /\ SimIdle

\* One call of change_power_spectrum_knots on the drawn arguments.
Reweight ==
    /\ rw.status = "none"
    /\ \E ip \in InterpValues :
          rw' = change_power_spectrum_knots(knotpos, knotval, matpow, ip)
    /\ UNCHANGED <<matpow, knotpos, knotval, first, nuvars, parvars, simvars>>

Next == Reweight

Spec == Init /\ [][Next]_vars

---------------------------------------------------------------------------
(* Two calls in a row: the second on the table the first returned *)

\* Knot positions and values drawn for the two calls: perturbations of 0.3% and 2%.
SeqKnotCandidates == { 60000, 80000, 150000 }
SeqKnotValues == { R(997, 1000), R(1003, 1000), R(51, 50) }

SeqKnotSets ==
    { c \in [pos : SeqsUpTo(SeqKnotCandidates, MaxKnots),
             val : SeqsUpTo(SeqKnotValues, MaxKnots)] :
        KnotsIncrease(c.pos) /\ Len(c.val) = Len(c.pos) }

InitSeq ==
    /\ matpow = Table(40000, 7, << 7, 6, 5, 4, 3, 2, 1 >>)
    /\ \E c \in SeqKnotSets : knotpos = c.pos /\ knotval = c.val
    /\ rw = RwIdle
    /\ first = NoFirst
    /\ total_mass = 0
    /\ hierarchy = "degenerate"
    /\ nu = NuIdle
    /\ ParIdle
    /\ SimIdle

\* A second call of change_power_spectrum_knots, with new knots, on the table
\* the first call returned.
ReweightAgain ==
    /\ rw.status = "returned"
    /\ first = NoFirst
    /\ first' = [matpow |-> matpow, knotpos |-> knotpos, knotval |-> knotval]
    /\ matpow' = rw.table
    /\ \E c \in SeqKnotSets, ip \in InterpValues :
          /\ knotpos' = c.pos
          /\ knotval' = c.val
          /\ rw' = change_power_spectrum_knots(c.pos, c.val, rw.table, ip)
    /\ UNCHANGED <<nuvars, parvars, simvars>>

NextSeq == Reweight \/ ReweightAgain

SpecSeq == InitSeq /\ [][NextSeq]_vars

---------------------------------------------------------------------------
(* Claims about change_power_spectrum_knots, checked under Spec *)

RwReturned == rw.status = "returned"

\* The four preconditions as the specification states them.
ValidInput ==
    /\ KnotsIncrease(knotpos)
    /\ Len(knotval) = Len(knotpos)
    /\ \A j \in 1..Len(knotpos) :
          matpow[1].k < knotpos[j] /\ knotpos[j] < matpow[Len(matpow)].k
    /\ \A j \in 1..Len(knotval) : knotval[j][1] > 0

InputKs == {matpow[i].k : i \in 1..Len(matpow)}

\* C1: the k column of a returned table is strictly increasing (no k repeats),
\* and the uniqueness check of line 140 never fails.
C1_StrictlyIncreasingK ==
    /\ RwReturned =>
          \A i \in 1..(Len(rw.table) - 1) : rw.table[i].k < rw.table[i + 1].k
    /\ ~(rw.status = "AssertionError" /\ rw.line = 140)

\* A returned table where a knot fell on a row of the input and the midpoint
\* inserted for another knot fell on that knot.
C1_Witness ==
    /\ RwReturned /\ ValidInput /\ Len(knotpos) = 2
    /\ knotpos[2] \in InputKs
    /\ 2 * knotpos[1] = matpow[1].k + matpow[2].k

C3_KnotIdentity ==
    (RwReturned /\ ValidInput /\ \A j \in 1..Len(knotval) : knotval[j] = RInt(1))
        => \A i \in 1..Len(matpow) :
              \E j \in 1..Len(rw.table) : rw.table[j] = matpow[i]

\* The extended knot set as the claims describe it.
ExtPos == << (matpow[1].k * 95) \div 100 >> \o knotpos
              \o << (matpow[Len(matpow)].k * 105) \div 100 >>
ExtVal(kv) == << kv[1] >> \o kv \o << kv[Len(kv)] >>

\* v_a + (v_b - v_a)*(k - x_a)/(x_b - x_a)
Lerp(xa, va, xb, vb, k) == RAdd(va, RMul(RSub(vb, va), R(k - xa, xb - xa)))

\* C4: a row with k between two adjacent knots of the extended knot set has P
\* multiplied by their linear-in-k interpolation; a row at knot_pos[i] has P
\* multiplied by exactly knot_val[i].
C4_LinearInK ==
    RwReturned =>
        \A i \in 1..Len(rw.table) :
            /\ \A a \in 1..(Len(ExtPos) - 1) :
                  (ExtPos[a] <= rw.kval[i] /\ rw.kval[i] <= ExtPos[a + 1])
                      => rw.table[i].P =
                            RMul(rw.pval[i],
                                 Lerp(ExtPos[a], ExtVal(knotval)[a],
                                      ExtPos[a + 1], ExtVal(knotval)[a + 1],
                                      rw.kval[i]))
            /\ \A j \in 1..Len(knotpos) :
                  rw.kval[i] = knotpos[j]
                      => rw.table[i].P = RMul(rw.pval[i], knotval[j])

\* A returned table with a row strictly between two knots of different values
\* and a row on a knot.
C4_Witness ==
    /\ RwReturned /\ ValidInput /\ Len(knotpos) = 2
    /\ knotval[1] # knotval[2]
    /\ \E i \in 1..Len(rw.table) :
          knotpos[1] < rw.kval[i] /\ rw.kval[i] < knotpos[2]
    /\ \E i \in 1..Len(rw.table) : rw.kval[i] = knotpos[2]

\* knotval with 1 at every knot but knot a.
OnlyKnot(kv, a) == [j \in 1..Len(kv) |-> IF j = a THEN kv[j] ELSE RInt(1)]

\* The factor at k for the knot values kv, less 1.
Deviation(kv, k) ==
    RSub(Dpk(ExtKnotpos(knotpos, KCol(matpow)), ExtKnotval(kv), k), RInt(1))

\* C5: at every k of the returned table the factor is linear in the knot values:
\* with knots a and b perturbed and every other knot at 1, its deviation from 1
\* is the sum of the deviations with only a and with only b perturbed.
C5_AdditiveInKnotValues ==
    RwReturned =>
        \A a, b \in 1..Len(knotpos) :
            (a < b /\ \A j \in 1..Len(knotpos) : j \notin {a, b} => knotval[j] = RInt(1))
                => \A i \in 1..Len(rw.table) :
                      rw.table[i].P =
                          RMul(rw.pval[i],
                               RAdd(RInt(1),
                                    RAdd(Deviation(OnlyKnot(knotval, a), rw.kval[i]),
                                         Deviation(OnlyKnot(knotval, b), rw.kval[i]))))

\* A returned table for two knots both perturbed, with a row between them.
C5_Witness ==
    /\ RwReturned /\ ValidInput /\ Len(knotpos) = 2
    /\ knotval[1] = R(11, 10) /\ knotval[2] = R(19, 20)
    /\ \E i \in 1..Len(rw.table) :
          knotpos[1] < rw.kval[i] /\ rw.kval[i] < knotpos[2]

---------------------------------------------------------------------------
(* Claims about two calls in a row, checked under SpecSeq *)

RAbs(a) == << Abs(a[1]), a[2] >>
\* a <= b, compared over the least common denominator.
RLeq(a, b) ==
    LET g == GCD(a[2], b[2])
    IN a[1] * (b[2] \div g) <= b[1] * (a[2] \div g)

\* |a - b| <= 1% of |b|
Within1Percent(a, b) == RLeq(RMul(RInt(100), RAbs(RSub(a, b))), RAbs(b))

SetOf(q) == {q[i] : i \in 1..Len(q)}
SortedSeq(S) ==
    [n \in 1..Cardinality(S) |-> CHOOSE x \in S : Cardinality({y \in S : y <= x}) = n]

\* The knot sets A (first call) and B (second call) and their union.
UnionPos == SortedSeq(SetOf(first.knotpos) \cup SetOf(knotpos))
UnionVal ==
    [n \in 1..Len(UnionPos) |->
        IF UnionPos[n] \in SetOf(first.knotpos)
        THEN first.knotval[CHOOSE j \in 1..Len(first.knotpos) : first.knotpos[j] = UnionPos[n]]
        ELSE knotval[CHOOSE j \in 1..Len(knotpos) : knotpos[j] = UnionPos[n]]]

\* B was applied to the table A returned, both calls returned, and A and B are
\* disjoint and do not overlap.
Composed ==
    /\ first # NoFirst
    /\ RwReturned
    /\ \/ first.knotpos[Len(first.knotpos)] < knotpos[1]
       \/ knotpos[Len(knotpos)] < first.knotpos[1]

\* Every knot value of A and of B is within num/den of 1.
PerturbedWithin(num, den) ==
    \A v \in SetOf(first.knotval) \cup SetOf(knotval) :
        RLeq(RAbs(RSub(v, RInt(1))), R(num, den))

\* P at k in a table.
PAt(t, k) == t[CHOOSE i \in 1..Len(t) : t[i].k = k].P
Ks(t) == {t[i].k : i \in 1..Len(t)}

\* The single call with A union B agrees within 1% with B after A, at every row
\* of the first table that both results keep. (The rows a call inserts take their
\* P from the cubic interpolant of the table it was given, which the two sides
\* evaluate on different tables.)
AgreeOnInputRows ==
    \A ip \in InterpValues :
        LET u == change_power_spectrum_knots(UnionPos, UnionVal, first.matpow, ip)
        IN /\ u.status = "returned"
           /\ \A k \in Ks(first.matpow) \cap Ks(u.table) \cap Ks(rw.table) :
                 Within1Percent(PAt(u.table, k), PAt(rw.table, k))

---------------------------------------------------------------------------
(* Claims about get_neutrino_masses, checked under SpecNu *)

NuReturned == nu.status = "returned"

SumMasses(m) == m[1] + m[2] + m[3]

\* C7: every triple get_neutrino_masses returns sums to total_mass, whichever of
\* its return paths (degenerate, below threshold, solver) produced it.
C7_MassConservation ==
    NuReturned => SumMasses(nu.masses) = MassDen * total_mass

\* A triple returned by the solver branch of the normal hierarchy.
C7_Witness ==
    NuReturned /\ nu.branch = "solver" /\ hierarchy = "normal" /\ nu.masses[3] > 0

\* C8: for every total_mass >= 0 and each of the three hierarchies the call
\* returns a triple (no postcondition check fails), also just above the thresholds.
C8_AlwaysReturns ==
    (nu.status # "none" /\ hierarchy \in {"normal", "inverted", "degenerate"})
        => NuReturned

\* C9: a returned value has exactly three entries, all >= 0.
C9_ThreeNonNegative ==
    NuReturned => Len(nu.masses) = 3 /\ \A i \in 1..3 : nu.masses[i] >= 0

\* A triple returned by the solver branch of the inverted hierarchy, close to
\* where its lightest mass changes sign.
C9_Witness ==
    NuReturned /\ nu.branch = "solver" /\ hierarchy = "inverted"
               /\ nu.masses[1] < MassDen

\* The three conditions as C10 states them: DD finite, |DD - DD1| < 0.02*|DD1|,
\* all three masses >= 0.
C10_Conditions ==
    /\ nu.finite
    /\ 50 * Abs(nu.DD - nu.DD1) < Abs(nu.DD1)
    /\ nu.DD # 0
    /\ \A i \in 1..3 : nu.masses[i] >= 0

\* C10: in the solver branch a triple is returned exactly when DD is finite, the
\* refinement moved DD by less than 2% of DD1 and no mass is negative; otherwise
\* the call fails with an assertion error.
C10_ReturnsIffPostconditions ==
    nu.branch = "solver" =>
        /\ NuReturned <=> C10_Conditions
        /\ ~NuReturned => nu.status = "AssertionError"

\* A failed call in which the refinement moved DD by 2% of DD1 or more.
C10_Witness ==
    /\ nu.branch = "solver"
    /\ nu.status = "AssertionError"
    /\ 50 * Abs(nu.DD - nu.DD1) >= Abs(nu.DD1)

---------------------------------------------------------------------------
(* Claims about the rejection of inputs *)

RwCalled == rw.status # "none"

\* Some adjacent pair of knot_pos does not increase.
NotIncreasing == \E i \in 1..(Len(knotpos) - 1) : knotpos[i] >= knotpos[i + 1]

\* C11: a call with a knot_pos that is not strictly increasing fails with the
\* precondition failure of line 104 and returns no table, whatever the table and
\* knot_val.
C11_NonIncreasingRejected ==
    (RwCalled /\ NotIncreasing)
        => rw.status = "AssertionError" /\ rw.line = 104 /\ rw.table = << >>

\* A rejected call whose two knots lie inside the table in decreasing order, with
\* knot values that pass every other check.
C11_Witness ==
    /\ rw.status = "AssertionError"
    /\ Len(knotpos) = 2 /\ knotpos[1] > knotpos[2]
    /\ knotpos[2] > matpow[1].k /\ knotpos[1] < matpow[Len(matpow)].k
    /\ knotval = << RInt(1), RInt(1) >>

\* The call got as far as the knot-domain check of line 111.
ReachedDomainCheck ==
    RwCalled /\ ~(rw.status = "AssertionError" /\ rw.line \in {104, 105, 110})

\* Some knot is not strictly between the smallest and the largest k of the table.
KnotOutsideTable ==
    \E j \in 1..Len(knotpos) :
        knotpos[j] <= matpow[1].k \/ knotpos[j] >= matpow[Len(matpow)].k

\* C12: the knot-domain check of line 111 fails exactly when some knot is not
\* strictly between the table's smallest and largest k, whatever their magnitude.
C12_DomainCheckExact ==
    ReachedDomainCheck
        => ((rw.status = "AssertionError" /\ rw.line = 111) <=> KnotOutsideTable)

\* C13: a call with a knot_val entry that is zero or negative fails and returns
\* no table (here: whatever the failure, as long as no table comes back).
C13_NonPositiveValRejected ==
    (RwCalled /\ \E j \in 1..Len(knotval) : knotval[j][1] <= 0)
        => rw.status # "returned" /\ rw.table = << >>

NuCalled == nu.status # "none"

\* C14: a call with a hierarchy that is none of 'normal', 'inverted' and
\* 'degenerate' fails and returns no mass triple.
C14_UnknownHierarchyRejected ==
    (NuCalled /\ hierarchy \notin {"normal", "inverted", "degenerate"})
        => ~NuReturned /\ nu.masses = << >>

\* The error kinds of the precondition failures of change_power_spectrum_knots
\* (lines 104, 105, 110, 111, 112), one call for each.
PreconditionKinds ==
    LET t == Table(40000, 7, << 7, 6, 5, 4, 3, 2, 1 >>)
        one == << RInt(1) >>
        ip == R(5, 2)
    IN { change_power_spectrum_knots(<< 80000, 60000 >>, one \o one, t, ip).status,
         change_power_spectrum_knots(<< 80000 >>, one \o one, t, ip).status,
         change_power_spectrum_knots(<< 0 >>, one, t, ip).status,
         change_power_spectrum_knots(<< 300000 >>, one,
                                     Table(250000, 4, << 4, 3, 2, 1 >>), ip).status,
         change_power_spectrum_knots(<< 80000 >>, << RInt(0) >>, t, ip).status }

\* C15: the error of an internal-consistency failure (a repeated k at line 140; a
\* failed check of DD or of the masses at lines 594-596) is of another kind than
\* the error of a precondition failure.
C15_ConsistencyKindDistinct ==
    /\ (NuCalled /\ nu.branch = "solver" /\ ~NuReturned)
          => nu.status \notin PreconditionKinds
    /\ (RwCalled /\ rw.line = 140) => rw.status \notin PreconditionKinds

---------------------------------------------------------------------------
(* Claims about the rows of the returned table *)

\* No two k of the input table are within relative tolerance 1e-5 of each other.
NoCloseRows ==
    \A i, j \in 1..Len(matpow) : i < j => ~Close(matpow[i].k, matpow[j].k)

\* C16: for a table without close rows and a valid knot set, the returned table
\* never has fewer rows than the input table.
C16_RowCountNotBelowInput ==
    (RwReturned /\ ValidInput /\ NoCloseRows) => Len(rw.table) >= Len(matpow)

\* C17: for a valid knot set the returned table covers the k-range of the input:
\* its smallest and its largest k are those of the input table.
C17_SameKRange ==
    (RwReturned /\ ValidInput)
        => /\ rw.table[1].k = matpow[1].k
           /\ rw.table[Len(rw.table)].k = matpow[Len(matpow)].k

---------------------------------------------------------------------------
(* The correction factor in log k *)

\* k is the geometric mean of xa < xb: log k is half way from log xa to log xb.
GeometricMean(xa, k, xb) == 0 < xa /\ xa < k /\ k < xb /\ R(k, xa) = R(xb, k)

\* (log k - log xa)/(log xb - log xa) where it is rational.
LogWeighted(xa, k, xb) == k = xa \/ k = xb \/ GeometricMean(xa, k, xb)
LogWeight(xa, k, xb) ==
    IF k = xa THEN R(0, 1) ELSE IF k = xb THEN R(1, 1) ELSE R(1, 2)

\* C18 as stated: a row with k between adjacent knots x_i < x_j is multiplied by
\* v_i + (v_j - v_i)*(log k - log x_i)/(log x_j - log x_i).
C18_LinearInLogK ==
    RwReturned =>
        \A i \in 1..Len(rw.table) : \A a \in 1..(Len(ExtPos) - 1) :
            LogWeighted(ExtPos[a], rw.kval[i], ExtPos[a + 1])
                => rw.table[i].P =
                      RMul(rw.pval[i],
                           RAdd(ExtVal(knotval)[a],
                                RMul(RSub(ExtVal(knotval)[a + 1], ExtVal(knotval)[a]),
                                     LogWeight(ExtPos[a], rw.kval[i], ExtPos[a + 1]))))

\* C18 as amended: the factor is linear in k, not in log k. At the geometric mean
\* k of adjacent knots x_i < x_j the row is multiplied by
\* v_i + (v_j - v_i) * x_i/(x_i + k), which is (k - x_i)/(x_j - x_i) there, and
\* not by the log-linear (v_i + v_j)/2.
C18_LinearInKAtGeometricMean ==
    RwReturned =>
        \A i \in 1..Len(rw.table) : \A a \in 1..(Len(ExtPos) - 1) :
            GeometricMean(ExtPos[a], rw.kval[i], ExtPos[a + 1])
                => rw.table[i].P =
                      RMul(rw.pval[i],
                           RAdd(ExtVal(knotval)[a],
                                RMul(RSub(ExtVal(knotval)[a + 1], ExtVal(knotval)[a]),
                                     R(ExtPos[a], ExtPos[a] + rw.kval[i]))))

\* A returned table with a row at the geometric mean of two knots whose values
\* differ.
C18_Witness ==
    /\ RwReturned /\ ValidInput /\ Len(knotpos) = 2
    /\ knotval[1] # knotval[2]
    /\ \E i \in 1..Len(rw.table) :
          GeometricMean(knotpos[1], rw.kval[i], knotpos[2])

---------------------------------------------------------------------------
(* Claims about the branches of get_neutrino_masses that do not run the solver *)

\* Two doubles are equal or next to each other.
WithinOneUlp(a, b) == a = b \/ DoubleSucc(a) = b \/ DoubleSucc(b) = a

\* The degenerate branch returned three equal entries, thirds of total_mass in
\* exact arithmetic, and the solver did not run.
DegenerateThirds ==
    /\ NuReturned /\ nu.branch = "degenerate"
    /\ Len(nu.masses) = 3
    /\ \A i \in 1..3 : 3 * nu.masses[i] = MassDen * total_mass

\* C19 as stated: for 'degenerate' the call returns three equal entries, each
\* exactly total_mass/3, without running the solver: where the third is a decimal
\* of the grid (0.3 gives 0.1) the entry is the double of that decimal.
C19_DegenerateExactThirds ==
    (NuCalled /\ hierarchy = "degenerate")
        => /\ DegenerateThirds
           /\ total_mass % 3 = 0 => nu.fl = ToDouble(total_mass \div 3, MassGrid)

\* C19 as amended: the entries are the float64 quotient total_mass/3., which is
\* the double of the decimal third or a neighbour of it (0.3 gives
\* 0.09999999999999999, the double below 0.1).
C19_DegenerateThirdsToOneUlp ==
    (NuCalled /\ hierarchy = "degenerate")
        => /\ DegenerateThirds
           /\ total_mass % 3 = 0
                 => WithinOneUlp(nu.fl, ToDouble(total_mass \div 3, MassGrid))

\* get_neutrino_masses(0.3, 'degenerate') returned, with entries one unit in the
\* last place below 0.1.
C19_Witness ==
    /\ NuReturned /\ hierarchy = "degenerate" /\ total_mass = 3 * 10000
    /\ nu.fl # ToDouble(10000, MassGrid)
    /\ DoubleSucc(nu.fl) = ToDouble(10000, MassGrid)

\* total_mass is below sqrt(2.44e-3) + sqrt(7.53e-5), and below
\* 2*sqrt(2.51e-3) - sqrt(7.53e-5).
BelowNormalMinimum == total_mass * Q < SqrtQ(nu_M32n) + SqrtQ(nu_M21)
BelowInvertedMinimum == total_mass * Q < 2 * SqrtQ(nu_M32i) - SqrtQ(nu_M21)

\* C20: below the hierarchy's minimum mass the solver does not run and the call
\* returns [total_mass, 0, 0] for 'normal' and [total_mass/2, total_mass/2, 0]
\* for 'inverted'.
C20_BelowThresholdFixedSplit ==
    NuCalled =>
        /\ (hierarchy = "normal" /\ BelowNormalMinimum)
              => /\ NuReturned /\ nu.branch = "below"
                 /\ nu.masses = << MassDen * total_mass, 0, 0 >>
        /\ (hierarchy = "inverted" /\ BelowInvertedMinimum)
              => /\ NuReturned /\ nu.branch = "below"
                 /\ Len(nu.masses) = 3
                 /\ 2 * nu.masses[1] = MassDen * total_mass
                 /\ nu.masses[2] = nu.masses[1]
                 /\ nu.masses[3] = 0

\* A fixed split returned for 'inverted' within 0.0005 eV of its threshold, where
\* 'normal' already runs the solver.
C20_Witness ==
    /\ NuReturned /\ hierarchy = "inverted" /\ nu.branch = "below"
    /\ ~BelowNormalMinimum
    /\ (total_mass + 50) * Q >= 2 * SqrtQ(nu_M32i) - SqrtQ(nu_M21)

---------------------------------------------------------------------------
(* Claims about the inserted rows and the interpolation window *)

\* C22: a call on an input that satisfies the four stated preconditions completes
\* and returns a table: no index or interpolation error is raised, also when a
\* knot lies between the last two samples of the table.
C22_ValidInputReturns == (RwCalled /\ ValidInput) => RwReturned

SetMax(S) == CHOOSE k \in S : \A o \in S : o <= k
SetMin(S) == CHOOSE k \in S : \A o \in S : k <= o

\* The largest k of the input table below a knot, and the smallest not below it.
SampleBelow(knot) == SetMax({k \in InputKs : k < knot})
SampleNotBelow(knot) == SetMin({k \in InputKs : k >= knot})

HasRowAt(k) == \E i \in 1..Len(rw.table) : rw.table[i].k = k

\* A row at k, or one that the removal of close rows (lines 135-138) left for it.
HasRowNear(k) ==
    \E i \in 1..Len(rw.table) : rw.table[i].k = k \/ Close(rw.table[i].k, k)

\* C23: for each knot the returned table has a row at the midpoint between the
\* knot and the largest k of the input table below it.
C23_MidpointToSampleBelow ==
    (RwReturned /\ ValidInput) =>
        \A j \in 1..Len(knotpos) :
            HasRowAt((knotpos[j] + SampleBelow(knotpos[j])) \div 2)

\* C23, as the code has it: for each knot the returned table has a row at the
\* midpoint of the interval of the input table that holds the knot, that is
\* halfway between the largest input k below the knot and the smallest input k
\* not below it (or, where rows closer than 1e-5 were removed, the row kept).
C23_MidpointOfTableInterval ==
    (RwReturned /\ ValidInput) =>
        \A j \in 1..Len(knotpos) :
            HasRowNear((SampleNotBelow(knotpos[j]) + SampleBelow(knotpos[j])) \div 2)

\* A returned table for a knot that is neither on a row of the input table nor
\* in the middle of its interval.
C23_Witness ==
    /\ RwReturned /\ ValidInput
    /\ \E j \in 1..Len(knotpos) :
          /\ knotpos[j] \notin InputKs
          /\ 2 * knotpos[j] # SampleNotBelow(knotpos[j]) + SampleBelow(knotpos[j])
          /\ HasRowAt(knotpos[j])

---------------------------------------------------------------------------
(* The solar splitting of the returned triple *)

\* s * d for s, d >= 0 as << hi, lo >> with s * d = hi * Q^2 + lo, 0 <= lo < Q^2.
ProductQ2(s, d) ==
    LET mid == (s \div Q) * (d % Q) + (s % Q) * (d \div Q)
        low == (s % Q) * (d % Q) + (mid % Q) * Q
    IN << (s \div Q) * (d \div Q) + mid \div Q + low \div (Q * Q), low % (Q * Q) >>

\* m2^2 - m3^2 = nu_M21 for the second and third entries of a triple m, whose
\* entries are in 1/MassDen: (m2 + m3) * (m2 - m3) = 4 * Q^2 * nu_M21, up to the
\* rounding of the quotient nu_M21/DD to the grid (less than 2 * (m2 + m3)).
SolarSplitting(m) ==
    LET s == m[2] + m[3]
        d == m[2] - m[3]
        p == ProductQ2(s, d)
        gap == 4 * nu_M21 - p[1]
        short == IF gap >= 0 /\ gap <= 2 * (s \div (Q * Q)) + 2
                 THEN gap * Q * Q - p[2] ELSE 0 - 1
    IN s > 0 /\ d > 0 /\ short >= 0 /\ short < 2 * s

\* C24: every returned triple has m2^2 - m3^2 = nu_M21, whichever branch
\* (solver, below threshold, degenerate) returned it.
C24_SolarSplittingEveryBranch ==
    NuReturned => SolarSplitting(nu.masses)

\* C24, as the code has it: a triple returned by the solver branch has
\* m2 + m3 = DD and m2^2 - m3^2 = nu_M21.
C24_SolarSplittingInSolver ==
    (NuReturned /\ nu.branch = "solver") =>
        /\ nu.masses[2] + nu.masses[3] = 2 * nu.DD
        /\ SolarSplitting(nu.masses)

\* A triple returned by the solver branch of the inverted hierarchy with three
\* massive neutrinos.
C24_Witness ==
    /\ NuReturned /\ nu.branch = "solver" /\ hierarchy = "inverted"
    /\ nu.masses[1] > 0 /\ nu.masses[3] > 0

---------------------------------------------------------------------------
(* Invocations in flight at the same time, on the same caller's objects *)

Callers == {"first", "second"}

\* The array that the in-place product of line 144 (pval *= ...) writes: "local"
\* is an array the invocation made itself, "matpow" the caller's table.
\* The product written through to the caller's table.
PvalTargetCaller == "matpow"

\* pval is bound to the array np.insert returned (line 133) or the one np.delete
\* returned (line 138): either is a new array, as is the copy of line 108.
PvalTarget == "local"

\* The caller's table after line 144 of an invocation with outcome out.
AfterProduct(mp, out) ==
    IF PvalTarget = "matpow" /\ out.status = "returned"
    THEN [i \in 1..Len(mp) |->
            IF \E j \in 1..Len(out.table) : out.table[j].k = mp[i].k
            THEN CHOOSE r \in {out.table[j] : j \in 1..Len(out.table)} : r.k = mp[i].k
            ELSE mp[i]]
    ELSE mp

FrameCalled == [pc |-> "called", matpow |-> << >>, out |-> RwIdle]

\* The argument sets of the concurrent calls: valid ones, a knot in the last
\* interval, knots out of order, values of another length, a value of zero.
ParCalls ==
    { [pos |-> << 60000, 150000 >>, val |-> << R(11, 10), R(1, 1) >>],
      [pos |-> << 80000 >>, val |-> << R(19, 20) >>],
      [pos |-> << 250000 >>, val |-> << R(1, 1) >>],
      [pos |-> << 150000, 60000 >>, val |-> << R(1, 1), R(1, 1) >>],
      [pos |-> << 60000, 150000 >>, val |-> << R(1, 1) >>],
      [pos |-> << 150000 >>, val |-> << R(0, 1) >>] }

ParMasses == { 0, 6000, 10000 }

InitPar ==
    /\ matpow \in Tables
    /\ \E c \in ParCalls : knotpos = c.pos /\ knotval = c.val
    /\ rw = RwIdle
    /\ first = NoFirst
    /\ total_mass \in ParMasses
    /\ hierarchy \in Hierarchies
    /\ nu = NuIdle
    /\ frames = [t \in Callers |-> FrameCalled]
    /\ SimIdle

\* Lines 104-108 of invocation t: the two checks on the knots, then the copy of
\* the two columns of matpow into the local kval and pval.
Enter(t) ==
    /\ frames[t].pc = "called"
    /\ frames' = [frames EXCEPT ![t] =
          IF ~KnotsIncrease(knotpos)
          THEN [pc |-> "done", matpow |-> << >>, out |-> Raised("AssertionError", 104)]
          ELSE IF ~SameShape(knotpos, knotval)
          THEN [pc |-> "done", matpow |-> << >>, out |-> Raised("AssertionError", 105)]
          ELSE [pc |-> "copied", matpow |-> matpow, out |-> RwIdle]]
    /\ UNCHANGED <<matpow, knotpos, knotval, rw, first, nuvars, simvars>>

\* Lines 110-146 of invocation t, on its local copy of the table.
Finish(t) ==
    /\ frames[t].pc = "copied"
    /\ \E ip \in InterpValues :
          LET out == change_power_spectrum_knots(knotpos, knotval, frames[t].matpow, ip)
          IN /\ frames' = [frames EXCEPT ![t] =
                               [pc |-> "done", matpow |-> frames[t].matpow, out |-> out]]
             /\ matpow' = AfterProduct(matpow, out)
    /\ UNCHANGED <<knotpos, knotval, rw, first, nuvars, simvars>>

NextPar == (\E t \in Callers : Enter(t) \/ Finish(t)) \/ SplitMasses

SpecPar == InitPar /\ [][NextPar]_vars

\* Every finished invocation has the outcome a call alone has on the arguments
\* as they are now.
AsAlone ==
    \A t \in DOMAIN frames :
        frames[t].pc = "done" =>
            \E ip \in InterpValues :
                frames[t].out = change_power_spectrum_knots(knotpos, knotval, matpow, ip)

---------------------------------------------------------------------------
(* Python values and their text forms *)

\* A value is its type and its content; a float is held in hundredths.
PyInt(n) == [type |-> "int", val |-> n]
PyFloat(h) == [type |-> "float", val |-> h]
PyStr(s) == [type |-> "str", val |-> s]
PyBool(b) == [type |-> "bool", val |-> b]
PyTuple(q) == [type |-> "tuple", val |-> q]
PyList(q) == [type |-> "list", val |-> q]
NdArray(q) == [type |-> "ndarray", val |-> q]
PyType(mod, name) == [type |-> "type", val |-> << mod, name >>]
PyObject(name) == [type |-> "object", val |-> name]

\* A number in hundredths.
Num(v) == IF v.type = "int" THEN 100 * v.val ELSE v.val

\* The two digits after the point of repr(x), without a trailing zero.
Decimals(c) ==
    IF c % 10 = 0 THEN ToString(c \div 10)
    ELSE IF c < 10 THEN "0" \o ToString(c) ELSE ToString(c)

\* str(x) for an int, a float x >= 0 or a str.
Str(v) ==
    IF v.type = "int" THEN ToString(v.val)
    ELSE IF v.type = "float"
    THEN ToString(v.val \div 100) \o "." \o Decimals(v.val % 100)
    ELSE v.val

\* The hundredths below 1 that '%.1g' rounds up at a tie of the decimal digits
\* (0.45, 0.55 and 0.65 lie above the tie as binary numbers, 0.75 is a tie with
\* an odd digit); the other ties round down.
TieUp == { 45, 55, 65, 75 }

\* '%.1g' % x for 0 <= x <= 10, x = h/100: one significant digit.
OneDigit(h) ==
    IF h = 0 THEN "0"
    ELSE IF h < 10 THEN "0.0" \o ToString(h)
    ELSE IF h < 100 THEN
        LET d == (h \div 10) + (IF h % 10 > 5 \/ h \in TieUp THEN 1 ELSE 0)
        IN IF d = 10 THEN "1" ELSE "0." \o ToString(d)
    ELSE
        LET f == h \div 100
            d == f + (IF h % 100 > 50 \/ (h % 100 = 50 /\ f % 2 = 1) THEN 1 ELSE 0)
        IN IF d = 10 THEN "1e+01" ELSE ToString(d)

\* _camb_zstr(zz), lines 171-177, for zz = h/100.
CambZstr(h) == IF h > 1000 THEN ToString(h \div 100) ELSE OneDigit(h)

---------------------------------------------------------------------------
(* Construction of SimulationICs and its Lyman-alpha subclasses *)

Classes ==
    { "SimulationICs", "LymanAlphaSim", "LymanAlphaNCDMSim", "LymanAlphaKnotICs" }

\* Keyword parameters: those in kw as passed, the others at their defaults.
Bind(kw, defaults) ==
    [a \in DOMAIN kw \cup DOMAIN defaults |->
        IF a \in DOMAIN kw THEN kw[a] ELSE defaults[a]]

Without(kw, names) == [a \in DOMAIN kw \ names |-> kw[a]]

Only(kw, names) == [a \in DOMAIN kw \cap names |-> kw[a]]

\* The outcome of a constructor: the exception it raised, or the __dict__ it built.
Failed(exc, file, line) ==
    [exc |-> exc, file |-> file, line |-> line, dict |-> << >>]
Constructed(dict) == [exc |-> "none", file |-> "", line |-> 0, dict |-> dict]

\* SimulationICs.__init__, line 50: the defaults of the parameters that the calls
\* drawn here pass or the steps modelled here read. seed, omega0, omegab, hubble,
\* scalar_amp, ns, rscatter and cluster_class are never passed: their defaults
\* satisfy the checks of lines 59-71.
SimulationICsDefaults ==
    [redshift |-> PyInt(99), redend |-> PyInt(0), separate_gas |-> PyBool(TRUE),
     m_nu |-> PyInt(0), nu_hierarchy |-> PyStr("degenerate"), uvb |-> PyStr("hm")]

\* The uvb tables accepted by line 75.
UvbNames == { "hm", "fg", "sh" }

\* SimulationICs.__init__, lines 50-98.
SimulationICsInit(kw) ==
    LET a == Bind(kw, SimulationICsDefaults)
        Fail(line) == Failed("AssertionError", "simulationics.py", line)
    IN IF ~(Num(a.box) < 100 * 20000) THEN Fail(53)
       ELSE IF ~(Num(a.npart) > 100 /\ Num(a.npart) < 100 * 16000) THEN Fail(56)
       ELSE IF ~(Num(a.redshift) > 100 /\ Num(a.redshift) < 100 * 1100) THEN Fail(63)
       ELSE IF ~(Num(a.redend) >= 0 /\ Num(a.redend) < 100 * 1100) THEN Fail(65)
       ELSE IF a.uvb.val \notin UvbNames THEN Fail(75)
       ELSE Constructed(
               Bind("_cluster" :> PyObject("MARCCClass"),
                    Bind([separate_nu |-> PyBool(FALSE),
                          npart |-> PyInt(Num(a.npart) \div 100)],
                         a)))

\* LymanAlphaSim.__init__, lines 13-20.
LymanAlphaSimDefaults ==
    [rescale_gamma |-> PyBool(TRUE), rescale_amp |-> PyFloat(100),
     rescale_slope |-> PyFloat(0), redend |-> PyFloat(220), uvb |-> PyStr("pu")]

LymanAlphaSimOwn == { "rescale_gamma", "rescale_amp", "rescale_slope" }

LymanAlphaSimInit(kw) ==
    LET a == Bind(kw, LymanAlphaSimDefaults)
        r == SimulationICsInit(Without(a, LymanAlphaSimOwn))
    IN IF r.exc # "none" THEN r
       ELSE IF ~r.dict.separate_gas.val
       THEN Failed("AssertionError", "lyasimulation.py", 20)
       ELSE Constructed(Bind(r.dict, Only(a, LymanAlphaSimOwn)))

\* LymanAlphaNCDMSim.__init__, lines 52-58.
LymanAlphaNCDMSimDefaults ==
    [rescale_gamma |-> PyBool(TRUE), rescale_amp |-> PyFloat(100),
     rescale_slope |-> PyFloat(0), redend |-> PyFloat(424), uvb |-> PyStr("on")]

LymanAlphaNCDMSimOwn == { "alpha", "beta", "gamma" }

LymanAlphaNCDMSimInit(kw) ==
    LET a == Bind(kw, LymanAlphaNCDMSimDefaults)
        r == LymanAlphaSimInit(Without(a, LymanAlphaNCDMSimOwn))
    IN IF r.exc # "none" THEN r
       ELSE Constructed(Bind(r.dict, Only(a, LymanAlphaNCDMSimOwn)))

\* LymanAlphaKnotICs.__init__, lines 79-83: knot_pos = (0.15, 0.475, 0.75, 1.19),
\* knot_val = (1., 1., 1., 1.).
LymanAlphaKnotICsDefaults ==
    [knot_pos |-> PyTuple(<< 30000, 95000, 150000, 238000 >>),
     knot_val |-> PyTuple(<< R(1, 1), R(1, 1), R(1, 1), R(1, 1) >>)]

LymanAlphaKnotICsOwn == { "knot_pos", "knot_val" }

LymanAlphaKnotICsInit(kw) ==
    LET a == Bind(kw, LymanAlphaKnotICsDefaults)
        r == LymanAlphaSimInit(Without(a, LymanAlphaKnotICsOwn))
    IN IF r.exc # "none" THEN r
       ELSE Constructed(Bind(r.dict, Only(a, LymanAlphaKnotICsOwn)))

\* cls(**kw)
New(c, kw) ==
    IF c = "SimulationICs" THEN SimulationICsInit(kw)
    ELSE IF c = "LymanAlphaSim" THEN LymanAlphaSimInit(kw)
    ELSE IF c = "LymanAlphaNCDMSim" THEN LymanAlphaNCDMSimInit(kw)
    ELSE LymanAlphaKnotICsInit(kw)

---------------------------------------------------------------------------
(* The files of a run, relative to outdir *)

\* Line 153
CambOutput == "camb_linear/"

\* Lines 163 and 166: the transfer and the power file cambfile writes for zz = h/100.
CambTransferFile(h) == CambOutput \o "ics_transfer_" \o CambZstr(h) \o ".dat"
CambPkFile(h) == CambOutput \o "ics_matterpow_" \o CambZstr(h)

\* Line 233: the file SimulationICs._alter_power looks up.
AlterPowerFile(d) ==
    CambOutput \o "ics_matterpow_" \o CambZstr(Num(d.redshift)) \o ".dat"

\* lyasimulation.py, line 87: the file LymanAlphaKnotICs._alter_power reads.
KnotPowerFile(d) == CambOutput \o "_matterpow_" \o Str(d.redshift) \o ".dat"

\* Line 209: FileWithInputSpectrum of the MP-GenIC parameter file.
GenicInputSpectrum(d) ==
    CambOutput \o "ics_matterpow_" \o CambZstr(Num(d.redshift)) \o ".dat"

\* Lines 183 and 188-189, 227: the initial conditions MP-GenIC writes.
GenicOutput(d) ==
    "ICS/" \o Str(d.box) \o "_" \o Str(d.npart) \o "_" \o Str(d.redshift)

\* The file an _alter_power of class c uses.
PowerFile(c, d) ==
    IF c = "LymanAlphaKnotICs" THEN KnotPowerFile(d) ELSE AlterPowerFile(d)

\* generate_times as redshifts 1/a - 1, in hundredths. SimulationICs (lines
\* 400-407): the fixed list between the two ends; LymanAlphaSim and
\* LymanAlphaKnotICs (lyasimulation.py, lines 44-47): 4.2 down to redend in
\* steps of 0.2; LymanAlphaNCDMSim (lines 60-63): a fixed list.
GenerateTimes(c, d) ==
    IF c = "SimulationICs"
    THEN {z \in {4900, 900, 400, 300, 200, 100, 50, 20} :
             z < Num(d.redshift) /\ z > Num(d.redend)}
    ELSE IF c = "LymanAlphaNCDMSim" THEN {700, 600, 540, 495, 458, 440, 424}
    ELSE {z \in {420 - 20 * i : i \in 0..21} : z > Num(d.redend)}

\* Line 406
TimesNonEmpty(c, d) == c = "SimulationICs" => GenerateTimes(c, d) # {}

\* Line 139: camb_zz
CambZz(c, d) ==
    {Num(d.redshift), Num(d.redshift) - 1, Num(d.redend)} \cup GenerateTimes(c, d)

\* get_neutrino_masses(self.m_nu, self.nu_hierarchy): m_nu is in eV, held in
\* hundredths, and total_mass in 1e-5 eV.
NuOf(d) == get_neutrino_masses(1000 * Num(d.m_nu), d.nu_hierarchy.val)

---------------------------------------------------------------------------
(* The JSON description of the object *)

\* The attributes in the order __init__ and the later steps create them.
AttrOrder ==
    << "knot_pos", "knot_val", "alpha", "beta", "gamma",
       "rescale_gamma", "rescale_amp", "rescale_slope",
       "box", "npart", "redshift", "redend", "uvb", "separate_gas", "separate_nu",
       "m_nu", "nu_hierarchy", "outdir", "_cluster",
       "gadget_git", "make_output", "_really_arrays", "_really_types" >>

\* The names of the attributes of d with a value of type t, in dict order.
NamesOfType(d, t) ==
    SelectSeq(AttrOrder, LAMBDA a : a \in DOMAIN d /\ d[a].type = t)

\* Lines 261-269: arrays become lists, types become (module, name) tuples.
AsStorable(v) ==
    IF v.type = "ndarray" THEN PyList(v.val)
    ELSE IF v.type = "type" THEN PyTuple(v.val)
    ELSE v

\* json.dump of one value: a tuple and a list are both written as an array.
JsonTypes == { "int", "float", "str", "bool", "tuple", "list" }
ToJson(v) ==
    IF v.type \in { "tuple", "list" } THEN [json |-> "array", val |-> v.val]
    ELSE [json |-> v.type, val |-> v.val]

\* json.load of one value: an array is read as a list.
FromJson(j) ==
    IF j.json = "array" THEN PyList(j.val) ELSE [type |-> j.json, val |-> j.val]

SetOfSeq(q) == {q[i] : i \in 1..Len(q)}

\* _fromarray, lines 241-251.
FromArray(d) ==
    LET arrays == SetOfSeq(d["_really_arrays"].val)
        types == SetOfSeq(d["_really_types"].val)
    IN [a \in DOMAIN d |->
          IF a \in {"_really_arrays", "_really_types"} THEN PyList(<< >>)
          ELSE IF a \in types THEN PyType(d[a].val[1], d[a].val[2])
          ELSE IF a \in arrays THEN NdArray(d[a].val)
          ELSE d[a]]

\* Lines 256-269: __dict__ as txt_description hands it to json.dump.
Described(d) ==
    LET d1 == Bind([make_output |-> PyStr("")],
                   Bind("_cluster" :> PyInt(0),
                        Bind("_really_arrays" :> PyList(NamesOfType(d, "ndarray")),
                             Bind("_really_types" :> PyList(NamesOfType(d, "type")),
                                  d))))
    IN [a \in DOMAIN d1 |->
          IF a \in {"_really_arrays", "_really_types"} THEN d1[a]
          ELSE AsStorable(d1[a])]

\* Lines 270-274: the file written and the live object afterwards.
Dumped(d) == [a \in DOMAIN d |-> ToJson(d[a])]
LiveAfterDescription(d) ==
    Bind("_cluster" :> d["_cluster"], FromArray(Described(d)))

\* Lines 278-282: the object after load_txt_description of the file content j.
Loaded(d, j) ==
    Bind("_cluster" :> d["_cluster"], FromArray([a \in DOMAIN j |-> FromJson(j[a])]))

---------------------------------------------------------------------------
(* The life of one simulation object: construction, make_simulation, and the
   calls of txt_description and load_txt_description around it *)

\* make_simulation, lines 510-531: the steps in the order of the calls.
MakeSimulationOrderGenicFirst ==
    << "cambfile", "MP-GenIC", "_alter_power", "genicfile", "txt_description",
       "check_ic_power_spectra", "gadget3config", "do_gadget_build",
       "gadget3params", "generate_mpi_submit" >>

MakeSimulationOrder ==
    << "cambfile", "_alter_power", "genicfile", "MP-GenIC", "txt_description",
       "check_ic_power_spectra", "gadget3config", "do_gadget_build",
       "gadget3params", "generate_mpi_submit" >>

\* The steps of a run with the given do_build (lines 526-527).
StepsOf(build) ==
    SelectSeq(MakeSimulationOrder, LAMBDA st : st # "do_gadget_build" \/ build)

\* The step after st, or "returned" after the last.
Following(st, build) ==
    LET steps == StepsOf(build)
        i == CHOOSE j \in 1..Len(steps) : steps[j] = st
    IN IF i = Len(steps) THEN "returned" ELSE steps[i + 1]

\* The first step of make_simulation.
FirstStep == MakeSimulationOrder[1]

\* Arguments of the constructors drawn.
Optional(name, values) == { << >> } \cup { name :> v : v \in values }

RequiredArgs(c) ==
    { Bind([outdir |-> PyStr("out"), npart |-> PyInt(512)], Bind(b, n)) :
        b \in { [box |-> PyInt(60)], [box |-> PyInt(20000)] },
        n \in IF c = "LymanAlphaNCDMSim"
              THEN { [alpha |-> PyFloat(5), beta |-> PyFloat(250), gamma |-> PyFloat(0 - 500)] }
              ELSE { << >> } }

\* The knots passed to LymanAlphaKnotICs: none, the knot_val of the __main__
\* block (lyasimulation.py, line 149), and two knots as a tuple, a list, an array.
KnotArgs ==
    { << >>,
      [knot_val |-> PyTuple(<< R(1, 1), R(6, 5), R(1, 1), R(1, 1) >>)] }
    \cup { [knot_pos |-> [type |-> t, val |-> << 60000, 150000 >>],
            knot_val |-> [type |-> t, val |-> << R(11, 10), R(1, 1) >>]] :
             t \in { "tuple", "list", "ndarray" } }

InitKwargs(c) ==
    { Bind(r, Bind(u, Bind(z, Bind(m, Bind(g, k))))) :
        r \in RequiredArgs(c),
        u \in Optional("uvb", { PyStr("hm") }),
        z \in Optional("redshift", { PyFloat(9900), PyInt(10) }),
        m \in Optional("m_nu", { PyFloat(30) }),
        g \in Optional("separate_gas", { PyBool(FALSE) }),
        k \in IF c = "LymanAlphaKnotICs" THEN KnotArgs ELSE { << >> } }

\* The tables a power file left in outdir by an earlier run may hold.
RunTables ==
    { Table(40000, 7, << 7, 6, 5, 4, 3, 2, 1 >>),
      Table(20000, 14, << 7, 7, 6, 6, 5, 5, 4, 4, 3, 3, 2, 2, 1, 1 >>) }

\* outdir is new or holds, from an earlier run, the power file that _alter_power
\* of this class uses; matpow is the content of the file LymanAlphaKnotICs reads.
InitRun ==
    /\ cls \in Classes
    /\ \E kw \in InitKwargs(cls), build \in BOOLEAN :
          /\ kwargs = [init |-> kw, do_build |-> build]
          /\ files \in { {}, { PowerFile(cls, Bind(kw, SimulationICsDefaults)) } }
    /\ IF cls = "LymanAlphaKnotICs" /\ files # {}
       THEN matpow \in RunTables ELSE matpow = << >>
    /\ self = << >>
    /\ jsonfile = << >>
    /\ trace = << >>
    /\ pc = "__init__"
    /\ raised = NoException
    /\ before = << >>
    /\ last = "none"
    /\ knotpos = << >>
    /\ knotval = << >>
    /\ rw = RwIdle
    /\ first = NoFirst
    /\ total_mass = 0
    /\ hierarchy = "degenerate"
    /\ nu = NuIdle
    /\ ParIdle

\* cls(**kwargs)
Construct ==
    /\ pc = "__init__"
    /\ LET r == New(cls, kwargs.init)
       IN /\ self' = r.dict
          /\ pc' = IF r.exc = "none" THEN "constructed" ELSE "raised"
          /\ raised' = [exc |-> r.exc, file |-> r.file, line |-> r.line]
          /\ last' = IF r.exc = "none" THEN "__init__" ELSE last
    /\ UNCHANGED <<cls, kwargs, files, jsonfile, trace, before, rwvars, nuvars, parvars>>

\* A step of make_simulation that completed, having used path and written wrote.
Proceed(st, path, wrote) ==
    /\ trace' = Append(trace, [step |-> st, path |-> path, ok |-> TRUE])
    /\ files' = files \cup wrote
    /\ pc' = Following(st, kwargs.do_build)
    /\ raised' = raised
    /\ last' = st

\* A step of make_simulation that raised: the exception leaves make_simulation.
Raise(st, path, wrote, exc, file, line) ==
    /\ trace' = Append(trace, [step |-> st, path |-> path, ok |-> FALSE])
    /\ files' = files \cup wrote
    /\ pc' = "raised"
    /\ raised' = [exc |-> exc, file |-> file, line |-> line]
    /\ last' = st

\* The step st of make_simulation is the next one; make_simulation is called on
\* a constructed object.
AtStep(st) == pc = st \/ (st = FirstStep /\ pc = "constructed")

\* cambfile, lines 115-169.
Cambfile ==
    /\ AtStep("cambfile")
    /\ LET path == CambPkFile(Num(self.redshift))
       IN IF NuOf(self).status # "returned"
          THEN Raise("cambfile", path, {}, "AssertionError", "simulationics.py", 124)
          ELSE IF Num(self.m_nu) > 0
          THEN Raise("cambfile", path, {}, "TypeError", "simulationics.py", 127)
          ELSE IF ~TimesNonEmpty(cls, self)
          THEN Raise("cambfile", path, {}, "AssertionError", "simulationics.py", 406)
          ELSE Proceed("cambfile", path,
                       { "_class_params.ini" }
                       \cup { CambTransferFile(z) : z \in CambZz(cls, self) }
                       \cup { CambPkFile(z) : z \in CambZz(cls, self) })
    /\ before' = << >>
    /\ UNCHANGED <<cls, kwargs, self, jsonfile, rwvars, nuvars, parvars>>

\* SimulationICs._alter_power, lines 229-235.
AlterPower ==
    /\ AtStep("_alter_power")
    /\ cls # "LymanAlphaKnotICs"
    /\ LET path == AlterPowerFile(self)
       IN IF path \notin files
          THEN Raise("_alter_power", path, {}, "FileNotFoundError", "simulationics.py", 234)
          ELSE Proceed("_alter_power", path, {})
    /\ before' = << >>
    /\ UNCHANGED <<cls, kwargs, self, jsonfile, rwvars, nuvars, parvars>>

\* LymanAlphaKnotICs._alter_power, lyasimulation.py lines 85-93.
AlterPowerKnots ==
    /\ AtStep("_alter_power")
    /\ cls = "LymanAlphaKnotICs"
    /\ LET path == KnotPowerFile(self)
       IN IF path \notin files
          THEN /\ Raise("_alter_power", path, {}, "FileNotFoundError", "lyasimulation.py", 88)
               /\ rw' = rw
          ELSE \E ip \in InterpValues :
                 LET out == change_power_spectrum_knots(self.knot_pos.val,
                                                        self.knot_val.val, matpow, ip)
                 IN /\ rw' = out
                    /\ IF out.status # "returned"
                       THEN Raise("_alter_power", path, {}, out.status,
                                  "lyasimulation.py", out.line)
                       ELSE Proceed("_alter_power", path, { path \o ".orig" })
    /\ before' = << >>
    /\ UNCHANGED <<cls, kwargs, self, jsonfile, matpow, knotpos, knotval, first,
                   nuvars, parvars>>

\* genicfile, lines 179-227. mpgenic.ini is taken to hold the values that the
\* checks of lines 219-223 ask for.
Genicfile ==
    /\ AtStep("genicfile")
    /\ LET path == GenicInputSpectrum(self)
       IN IF NuOf(self).status # "returned"
          THEN Raise("genicfile", path, { "ICS" }, "AssertionError", "simulationics.py", 215)
          ELSE Proceed("genicfile", path, { "ICS", "_genic_params.ini" })
    /\ before' = << >>
    /\ UNCHANGED <<cls, kwargs, self, jsonfile, rwvars, nuvars, parvars>>

\* Line 518: MP-GenIC runs in outdir and exits with zero or not.
RunGenIC ==
    /\ AtStep("MP-GenIC")
    /\ \E ok \in BOOLEAN :
          IF ok THEN Proceed("MP-GenIC", "_genic_params.ini", { GenicOutput(self) })
          ELSE Raise("MP-GenIC", "_genic_params.ini", {}, "CalledProcessError",
                     "simulationics.py", 518)
    /\ before' = << >>
    /\ UNCHANGED <<cls, kwargs, self, jsonfile, rwvars, nuvars, parvars>>

\* txt_description, lines 253-274, as the step of make_simulation (line 520) or
\* called on the object before or after make_simulation.
TxtDescription ==
    /\ pc \in { "constructed", "txt_description", "returned" }
    /\ before' = self
    /\ last' = "txt_description"
    /\ LET d == Described(self)
           path == "SimulationICs.json"
           serialisable == \A a \in DOMAIN d : d[a].type \in JsonTypes
       IN /\ self' = IF serialisable THEN LiveAfterDescription(self) ELSE d
          /\ jsonfile' = IF serialisable THEN Dumped(d) ELSE << >>
          /\ files' = files \cup { path }
          /\ raised' = IF serialisable THEN raised
                       ELSE [exc |-> "TypeError", file |-> "simulationics.py", line |-> 271]
          /\ pc' = IF ~serialisable THEN "raised"
                   ELSE IF pc = "txt_description"
                   THEN Following("txt_description", kwargs.do_build) ELSE pc
          /\ trace' = IF pc = "txt_description"
                      THEN Append(trace, [step |-> "txt_description", path |-> path,
                                          ok |-> serialisable])
                      ELSE trace
    /\ UNCHANGED <<cls, kwargs, rwvars, nuvars, parvars>>

\* load_txt_description, lines 276-282, called before or after make_simulation.
LoadTxtDescription ==
    /\ pc \in { "constructed", "returned" }
    /\ IF "SimulationICs.json" \notin files
       THEN /\ pc' = "raised"
            /\ raised' = [exc |-> "FileNotFoundError", file |-> "simulationics.py",
                          line |-> 279]
            /\ UNCHANGED <<self, last>>
       ELSE /\ self' = Loaded(self, jsonfile)
            /\ last' = "load_txt_description"
            /\ UNCHANGED <<pc, raised>>
    /\ UNCHANGED <<cls, kwargs, files, jsonfile, trace, before, rwvars, nuvars, parvars>>

\* check_ic_power_spectra, lines 419-475: the figures of a species are saved
\* before its check; more than three modes off raise RuntimeError.
CheckICPower ==
    /\ AtStep("check_ic_power_spectra")
    /\ \E failing \in { "none", "DM", "by" } :
          /\ failing = "by" => self.separate_gas.val
          /\ LET species == IF failing = "DM" \/ ~self.separate_gas.val
                            THEN { "DM" } ELSE { "DM", "by" }
                 figures == { "ICS/PK-IC-" \o sp \o "-diff.pdf" : sp \in species }
                            \cup { "ICS/PK-IC-" \o sp \o "-abs.pdf" : sp \in species }
             IN IF failing = "none"
                THEN Proceed("check_ic_power_spectra", GenicOutput(self), figures)
                ELSE Raise("check_ic_power_spectra", GenicOutput(self), figures,
                           "RuntimeError", "simulationics.py", 475)
    /\ before' = << >>
    /\ UNCHANGED <<cls, kwargs, self, jsonfile, rwvars, nuvars, parvars>>

\* gadget3config, lines 284-306.
Gadget3Config ==
    /\ AtStep("gadget3config")
    /\ Proceed("gadget3config", "Options.mk", { "Options.mk" })
    /\ before' = << >>
    /\ UNCHANGED <<cls, kwargs, self, jsonfile, rwvars, nuvars, parvars>>

\* do_gadget_build, lines 477-499, when do_build: make succeeds or not.
DoGadgetBuild ==
    /\ AtStep("do_gadget_build")
    /\ \E ok \in BOOLEAN :
          IF ok
          THEN /\ Proceed("do_gadget_build", "Options.mk", { "MP-Gadget" })
               /\ self' = Bind([gadget_git |-> PyStr("hash"),
                                make_output |-> PyStr("make: done")], self)
          ELSE /\ Raise("do_gadget_build", "Options.mk", {}, "CalledProcessError",
                        "simulationics.py", 496)
               /\ self' = Bind([gadget_git |-> PyStr("hash")], self)
    /\ before' = << >>
    /\ UNCHANGED <<cls, kwargs, jsonfile, rwvars, nuvars, parvars>>

\* gadget3params, lines 318-384.
Gadget3Params ==
    /\ AtStep("gadget3params")
    /\ Proceed("gadget3params", "mpgadget.param",
               { "output", "mpgadget.param" }
               \cup (IF self.separate_gas.val THEN { "TREECOOL" } ELSE {}))
    /\ before' = << >>
    /\ UNCHANGED <<cls, kwargs, self, jsonfile, rwvars, nuvars, parvars>>

\* generate_mpi_submit, lines 501-505.
GenerateMpiSubmit ==
    /\ AtStep("generate_mpi_submit")
    /\ Proceed("generate_mpi_submit", "mpi_submit", { "mpi_submit" })
    /\ before' = << >>
    /\ UNCHANGED <<cls, kwargs, self, jsonfile, rwvars, nuvars, parvars>>

NextRun ==
    \/ Construct
    \/ Cambfile
    \/ AlterPower
    \/ AlterPowerKnots
    \/ Genicfile
    \/ RunGenIC
    \/ TxtDescription
    \/ LoadTxtDescription
    \/ CheckICPower
    \/ Gadget3Config
    \/ DoGadgetBuild
    \/ Gadget3Params
    \/ GenerateMpiSubmit

SpecRun == InitRun /\ [][NextRun]_vars

---------------------------------------------------------------------------
(* Claims about the simulation object, checked under SpecRun *)

\* C25: within one run the power file that cambfile wrote for the starting
\* redshift is the file _alter_power then looks up and the file genicfile names
\* in FileWithInputSpectrum, and that file exists.
C25_SamePowerFile ==
    \A i, j \in 1..Len(trace) :
        (trace[i].step = "cambfile" /\ trace[j].step \in { "_alter_power", "genicfile" })
            => /\ trace[j].path = trace[i].path
               /\ trace[j].path \in files

LymanClasses == { "LymanAlphaSim", "LymanAlphaNCDMSim", "LymanAlphaKnotICs" }

\* The required arguments of the class, and knot_val as the __main__ block passes it.
RequiredNames(c) ==
    { "outdir", "box", "npart" }
    \cup (IF c = "LymanAlphaNCDMSim" THEN { "alpha", "beta", "gamma" } ELSE {})
    \cup (IF c = "LymanAlphaKnotICs" THEN { "knot_val" } ELSE {})

\* Constructed with the required arguments alone, box and npart as in the
\* __main__ block.
OnlyRequired ==
    /\ DOMAIN kwargs.init \subseteq RequiredNames(cls)
    /\ kwargs.init.box = PyInt(60)
    /\ kwargs.init.npart = PyInt(512)

\* The construction failed one of the checks of SimulationICs.__init__.
ValidationFailed ==
    /\ raised.exc = "AssertionError"
    /\ raised.file = "simulationics.py"
    /\ raised.line \in 53..75

\* C26: a LymanAlphaSim, LymanAlphaNCDMSim or LymanAlphaKnotICs constructed with
\* only the required arguments passes every check of SimulationICs.__init__,
\* the uvb check of line 75 included.
C26_DefaultsPassValidation ==
    (cls \in LymanClasses /\ pc # "__init__" /\ OnlyRequired) => ~ValidationFailed

\* The order of the steps as the claim lists them.
ClaimedOrder(build) ==
    << "cambfile", "_alter_power", "genicfile", "MP-GenIC", "txt_description",
       "check_ic_power_spectra", "gadget3config" >>
    \o (IF build THEN << "do_gadget_build" >> ELSE << >>)
    \o << "gadget3params", "generate_mpi_submit" >>

StepsDone == [i \in 1..Len(trace) |-> trace[i].step]

IsPrefix(p, q) == Len(p) <= Len(q) /\ p = SubSeq(q, 1, Len(p))

CheckRaised ==
    /\ raised.exc = "RuntimeError"
    /\ trace # << >>
    /\ trace[Len(trace)].step = "check_ic_power_spectra"

\* C27: the steps of make_simulation happen in the one fixed order (the build
\* only when do_build), a step that raises is the last of the run, MP-GenIC runs
\* only after _alter_power completed, and in a run whose power spectrum check
\* raised SimulationICs.json is written and Options.mk, mpgadget.param and
\* mpi_submit are not.
C27_FixedOrderAndStop ==
    /\ IsPrefix(StepsDone, ClaimedOrder(kwargs.do_build))
    /\ \A i \in 1..Len(trace) :
          /\ i < Len(trace) => trace[i].ok
          /\ ~trace[i].ok => pc = "raised"
          /\ trace[i].step = "MP-GenIC" =>
                \E j \in 1..(i - 1) : trace[j].step = "_alter_power" /\ trace[j].ok
    /\ CheckRaised =>
          /\ "SimulationICs.json" \in files
          /\ { "Options.mk", "mpgadget.param", "mpi_submit" } \cap files = {}

\* A run stopped by the power spectrum check, after MP-GenIC ran.
C27_Witness ==
    /\ CheckRaised
    /\ pc = "raised"
    /\ \E i \in 1..Len(trace) : trace[i].step = "MP-GenIC" /\ trace[i].ok
    /\ "SimulationICs.json" \in files

\* Every attribute the object had when txt_description was called has the same
\* type and value now.
AsBefore ==
    \A a \in DOMAIN before : a \in DOMAIN self /\ self[a] = before[a]

\* C28: after txt_description, and after txt_description followed by
\* load_txt_description, every attribute of the object has the type and the
\* value it had before txt_description.
C28_DescriptionRoundTrip ==
    (last \in { "txt_description", "load_txt_description" } /\ before # << >>)
        => AsBefore

====
